---- MODULE Spec2Model ----
(***************************************************************************)
(* A model of the BFT layer of snarkOS (node/narwhal/src/bft.rs): the      *)
(* leader-certificate tracking of BFT::update_leader_certificate over the  *)
(* Storage it reads, and the lifecycle of the certificate-intake task      *)
(* (run, start_handlers, spawn, shut_down).                                *)
(***************************************************************************)
EXTENDS Integers, Sequences, FiniteSets, TLC

(***************************************************************************)
(* Bounds of the model.                                                    *)
(***************************************************************************)
\* The highest round Storage reaches.
MaxRound == 2
\* The most certificates Storage holds.
MaxCerts == 3
\* The most calls of run, each of which makes a channel and may spawn a task.
MaxRuns == 1

Rounds == 0..MaxRound

\* Address<N>: the identities of the validators.
Addresses == {"A", "B", "C"}

\* Option<T>
None == [some |-> FALSE]
Some(x) == [some |-> TRUE, value |-> x]

\* Result<T>
Ok(x) == [ok |-> TRUE, value |-> x]
Err(e) == [ok |-> FALSE, error |-> e]

\* BatchCertificate<N>: its author and its round identify it.
BatchCertificate == [author : Addresses, round : Rounds]

(***************************************************************************)
(* Committee: a snapshot of members and stakes, valid from a first round.  *)
(***************************************************************************)
CommitteeABC ==
    [starting_round |-> 0,
     members |-> <<[address |-> "A", stake |-> 1], [address |-> "B", stake |-> 1],
                   [address |-> "C", stake |-> 1]>>]

CommitteeCB ==
    [starting_round |-> 2,
     members |-> <<[address |-> "C", stake |-> 1], [address |-> "B", stake |-> 2]>>]

Committees == {CommitteeABC, CommitteeCB}

RECURSIVE TotalStake(_)
TotalStake(members) ==
    IF members = <<>> THEN 0 ELSE Head(members).stake + TotalStake(Tail(members))

\* The member whose stake interval holds the given ticket.
RECURSIVE MemberAt(_, _)
MemberAt(members, ticket) ==
    IF ticket < Head(members).stake
    THEN Head(members).address
    ELSE MemberAt(Tail(members), ticket - Head(members).stake)

\* Committee::leader_for: the stake-weighted choice seeded by the round; an
\* error for a round the committee is not valid for.
leader_for(committee, round) ==
    IF round < committee.starting_round
    THEN Err("round precedes the committee")
    ELSE Ok(MemberAt(committee.members, round % TotalStake(committee.members)))

VARIABLES
    current_round,       \* Storage::current_round()
    certificates,        \* Storage: the certificates admitted, of every round
    committees,          \* Storage: round -> Option<Committee>
    leader_certificate,  \* BFT.leader_certificate: Option<BatchCertificate>
    result,              \* what update_leader_certificate returned, when it is the
                         \* operation that led to this state: "Ok", "Err", else "none"
    tasks,               \* per call of run: its channel and its intake task
    handles,             \* BFT.handles: the tasks spawned, in the order pushed
    run_pc,              \* run: "idle" before any call, "primary" while it awaits
                         \* Primary::run, "Ok" or "Err" once it has returned that
    shut_pc,             \* shut_down: "idle", "draining" at its await, "done"
    primary_state,       \* Primary: "up", "draining", "stopped"
    warnings,            \* the number of warn! records of the intake tasks
    call,                \* a call of update_leader_certificate that runs beside
                         \* Storage: where it is and the values it has read
    twin                 \* a second BFT over the same Storage: its leader
                         \* certificate and what its last update returned

leader_vars == <<current_round, committees, leader_certificate, result, call, twin>>

lifecycle_vars == <<tasks, handles, run_pc, shut_pc, primary_state, warnings>>

vars == <<current_round, certificates, committees, leader_certificate, result,
          tasks, handles, run_pc, shut_pc, primary_state, warnings, call, twin>>

\* Storage::get_certificates_for_round
get_certificates_for_round(round) == {c \in certificates : c.round = round}

\* Storage::get_committee
get_committee(round) == IF round \in DOMAIN committees THEN committees[round] ELSE None

\* Mutant: the subtraction does not saturate.
plain_sub(a, b) == a - b

\* u64::saturating_sub
saturating_sub(a, b) == IF a >= b THEN a - b ELSE 0

\* Mutant: the parity test is inverted.
is_even(round) == round % 2 = 0

\* current_round % 2 != 0
is_odd(round) == round % 2 /= 0

\* Mutant: the emptiness test is negated.
is_not_empty(set) == set /= {}

\* previous_certificates.is_empty()
is_empty(set) == set = {}

\* let previous_round = current_round.saturating_sub(1);
previous_round_of(round) == saturating_sub(round, 1)

\* Mutant: a missing committee is defaulted to the first address instead of
\* being an error.
resolve_leader_defaulted(round) ==
    LET committee == get_committee(round)
    IN  IF committee.some THEN leader_for(committee.value, round) ELSE Ok("A")

\* Mutant: the leader is that of the previous round under the previous
\* round's committee.
resolve_leader_of_previous(round) ==
    LET committee == get_committee(saturating_sub(round, 1))
    IN  IF committee.some
        THEN leader_for(committee.value, saturating_sub(round, 1))
        ELSE Err("BFT failed to retrieve the committee for the current round")

\* Mutant: the committee is that of the previous round, asked for the leader
\* of the current round.
resolve_leader_previous_committee(round) ==
    LET committee == get_committee(saturating_sub(round, 1))
    IN  IF committee.some
        THEN leader_for(committee.value, round)
        ELSE Err("BFT failed to retrieve the committee for the current round")

\* Mutant: an error of leader_for is replaced by the first address.
resolve_leader_unwrap_or(round) ==
    LET committee == get_committee(round)
    IN  IF committee.some
        THEN IF leader_for(committee.value, round).ok
             THEN leader_for(committee.value, round)
             ELSE Ok("A")
        ELSE Err("BFT failed to retrieve the committee for the current round")

\* The match on get_committee(current_round): the leader, or the error.
resolve_leader(round) ==
    LET committee == get_committee(round)
    IN  IF committee.some
        THEN leader_for(committee.value, round)
        ELSE Err("BFT failed to retrieve the committee for the current round")

\* Mutant: the predicate of find is negated.
find_other_certificate(previous_certificates, leader) ==
    LET found == {c \in previous_certificates : c.author /= leader}
    IN  IF found = {} THEN None ELSE Some(CHOOSE c \in found : TRUE)

\* Mutant: when the leader has no certificate, some certificate of the round
\* is taken instead.
find_or_any_certificate(previous_certificates, leader) ==
    LET found == {c \in previous_certificates : c.author = leader}
    IN  IF found = {}
        THEN Some(CHOOSE c \in previous_certificates : TRUE)
        ELSE Some(CHOOSE c \in found : TRUE)

\* previous_certificates.into_iter().find(|certificate| certificate.author() == leader)
find_leader_certificate(previous_certificates, leader) ==
    LET found == {c \in previous_certificates : c.author = leader}
    IN  IF found = {} THEN None ELSE Some(CHOOSE c \in found : TRUE)

\* No call of update_leader_certificate is under way.
no_call == [pc |-> "idle", current_round |-> 0, previous_certificates |-> {},
            held |-> None]

\* BFT::leader
leader == IF leader_certificate.some THEN Some(leader_certificate.value.author) ELSE None

\* BFT::new
Init ==
    /\ current_round = 0
    /\ certificates = {}
    /\ committees = [r \in Rounds |-> None]
    /\ leader_certificate = None
    /\ result = "none"
    /\ tasks = <<>>
    /\ handles = <<>>
    /\ run_pc = "idle"
    /\ shut_pc = "idle"
    /\ primary_state = "up"
    /\ warnings = 0
    /\ call = no_call
    /\ twin = [leader_certificate |-> None, result |-> "none"]

\* BFT::update_leader_certificate
update_leader_certificate ==
    LET previous_round == previous_round_of(current_round)
        previous_certificates == get_certificates_for_round(previous_round)
        resolved == resolve_leader(current_round)
    IN  /\ IF is_odd(current_round)
           THEN /\ result' = "Ok"
                /\ UNCHANGED leader_certificate
           ELSE IF is_empty(previous_certificates)
           THEN /\ leader_certificate' = None
                /\ result' = "Ok"
           ELSE IF ~resolved.ok
           THEN /\ result' = "Err"
                /\ UNCHANGED leader_certificate
           ELSE /\ leader_certificate' = find_leader_certificate(previous_certificates, resolved.value)
                /\ result' = "Ok"
        /\ UNCHANGED <<current_round, certificates, committees>>
        /\ UNCHANGED <<lifecycle_vars, call, twin>>

\* Storage: Primary admits a certificate, one per author and round.
AdmitCertificate ==
    \E c \in BatchCertificate :
        /\ Cardinality(certificates) < MaxCerts
        /\ \A d \in certificates : ~(d.author = c.author /\ d.round = c.round)
        /\ certificates' = certificates \cup {c}
        /\ result' = "none"
        /\ UNCHANGED <<current_round, committees, leader_certificate>>
        /\ twin' = [twin EXCEPT !.result = "none"]
        /\ UNCHANGED <<lifecycle_vars, call>>

\* Storage: the node progresses to the next round.
AdvanceRound ==
    /\ current_round < MaxRound
    /\ current_round' = current_round + 1
    /\ result' = "none"
    /\ UNCHANGED <<certificates, committees, leader_certificate>>
    /\ twin' = [twin EXCEPT !.result = "none"]
    /\ UNCHANGED <<lifecycle_vars, call>>

\* Storage: the committee of a round becomes known.
RegisterCommittee ==
    \E r \in Rounds, committee \in Committees :
        /\ ~committees[r].some
        /\ committees' = [committees EXCEPT ![r] = Some(committee)]
        /\ result' = "none"
        /\ UNCHANGED <<current_round, certificates, leader_certificate>>
        /\ twin' = [twin EXCEPT !.result = "none"]
        /\ UNCHANGED <<lifecycle_vars, call>>

Next ==
    \/ update_leader_certificate
    \/ AdmitCertificate
    \/ AdvanceRound
    \/ RegisterCommittee

Spec == Init /\ [][Next]_vars

(***************************************************************************)
(* Lifecycle: run, the certificate-intake task of start_handlers, and      *)
(* shut_down.  A task is "pending" while run awaits Primary, "dropped"     *)
(* when run failed, and once spawned it is "waiting" (idle, suspended at   *)
(* recv().await), "polling" (being run by a worker thread), "finished"     *)
(* (its loop ended) or "cancelled" (the runtime dropped it after abort).   *)
(***************************************************************************)
Spawned == {"waiting", "polling", "finished", "cancelled"}

ReceiverAlive == {"pending", "waiting", "polling"}

\* init_bft_channels: the channel of one run, with the task that will read it.
\* (began records what shut_down had done when this run was called.)
init_bft_channels ==
    [queue |-> <<>>, enqueued |-> <<>>, processed |-> <<>>, closed |-> FALSE,
     state |-> "pending", abort |-> FALSE, began |-> shut_pc]

\* fn process_certificate_from_primary(&self, _certificate) -> Result<()> { Ok(()) }
process_certificate_from_primary(certificate) == Ok(<<>>)

\* rx_primary_certificate.recv(): the next certificate, None once the sender
\* is closed and the queue is drained, else the task suspends.
recv(task) ==
    IF task.queue /= <<>>
    THEN [kind |-> "Some", certificate |-> Head(task.queue), rest |-> Tail(task.queue)]
    ELSE IF task.closed
    THEN [kind |-> "None"]
    ELSE [kind |-> "Pending"]

\* Mutant: `if let` for `while let`: the task ends after its first certificate.
ends_after_processing(processed) == "finished"

\* while let Some(certificate) = ... { if let Err(e) = ... { warn!(..) } }: the
\* loop goes on to the next recv whatever processing returned.
after_processing(processed) == "polling"

\* Mutant: the loop does not end when recv returns None.
loops_after_none == "polling"

\* while let Some(..) = rx_primary_certificate.recv().await: None ends the task.
after_none == "finished"

\* Mutant: shut_down does not await the shut down of Primary.
not_awaited == TRUE

\* self.primary.shut_down().await has returned.
primary_shut_down_returned == primary_state = "stopped"

\* Mutant: the task is spawned and its handle is not kept.
spawn_untracked(task_id) == handles

\* self.handles.lock().push(tokio::spawn(future))
spawn(task_id) == Append(handles, task_id)

\* BFT::run up to the await of Primary::run: the channels are made and the
\* sender is handed to Primary.
run_begin ==
    /\ run_pc /= "primary"
    /\ Len(tasks) < MaxRuns
    /\ tasks' = Append(tasks, init_bft_channels)
    /\ run_pc' = "primary"
    /\ UNCHANGED <<handles, shut_pc, primary_state, warnings>>
    /\ UNCHANGED <<leader_vars, certificates>>

\* BFT::run after Primary::run returned Ok: start_handlers spawns the intake
\* task and tracks its handle.
run_start_handlers ==
    /\ run_pc = "primary"
    /\ tasks' = [tasks EXCEPT ![Len(tasks)].state = "waiting"]
    /\ handles' = spawn(Len(tasks))
    /\ run_pc' = "Ok"
    /\ UNCHANGED <<shut_pc, primary_state, warnings>>
    /\ UNCHANGED <<leader_vars, certificates>>

\* BFT::run after Primary::run returned an error: `?` returns it and the
\* receiver is dropped with no task spawned.
run_fail ==
    /\ run_pc = "primary"
    /\ tasks' = [tasks EXCEPT ![Len(tasks)].state = "dropped"]
    /\ run_pc' = "Err"
    /\ UNCHANGED <<handles, shut_pc, primary_state, warnings>>
    /\ UNCHANGED <<leader_vars, certificates>>

\* Primary stores a certificate of the current round and sends it to BFT.
PrimarySend(i) ==
    /\ primary_state /= "stopped"
    /\ tasks[i].state \in ReceiverAlive
    /\ ~tasks[i].closed
    /\ Cardinality(certificates) < MaxCerts
    /\ \E a \in Addresses :
        LET certificate == [author |-> a, round |-> current_round]
        IN  /\ certificate \notin certificates
            /\ certificates' = certificates \cup {certificate}
            /\ tasks' = [tasks EXCEPT ![i].queue = Append(@, certificate),
                                      ![i].enqueued = Append(@, certificate)]
    /\ UNCHANGED <<handles, run_pc, shut_pc, primary_state, warnings>>
    /\ UNCHANGED leader_vars

\* Primary drops the sender of a channel.
CloseSender(i) ==
    /\ tasks[i].state \in ReceiverAlive
    /\ ~tasks[i].closed
    /\ tasks' = [tasks EXCEPT ![i].closed = TRUE]
    /\ UNCHANGED <<handles, run_pc, shut_pc, primary_state, warnings>>
    /\ UNCHANGED <<leader_vars, certificates>>

\* The runtime polls an idle task that was woken: a certificate is queued or
\* the channel is closed.
Poll(i) ==
    /\ tasks[i].state = "waiting"
    /\ ~tasks[i].abort
    /\ recv(tasks[i]).kind /= "Pending"
    /\ tasks' = [tasks EXCEPT ![i].state = "polling"]
    /\ UNCHANGED <<handles, run_pc, shut_pc, primary_state, warnings>>
    /\ UNCHANGED <<leader_vars, certificates>>

\* One turn of the loop of the intake task: recv gives a certificate, it is
\* processed, and a failure is logged as a warning.
intake_step(i) ==
    LET received == recv(tasks[i])
    IN  /\ tasks[i].state = "polling"
        /\ received.kind = "Some"
        /\ LET processed == process_certificate_from_primary(received.certificate)
           IN  /\ tasks' = [tasks EXCEPT ![i].queue = received.rest,
                                         ![i].processed = Append(@, received.certificate),
                                         ![i].state = after_processing(processed)]
               /\ warnings' = IF processed.ok THEN warnings ELSE warnings + 1
        /\ UNCHANGED <<handles, run_pc, shut_pc, primary_state>>
        /\ UNCHANGED <<leader_vars, certificates>>

\* recv().await finds the queue empty and the sender open: the task suspends.
intake_suspend(i) ==
    /\ tasks[i].state = "polling"
    /\ recv(tasks[i]).kind = "Pending"
    /\ tasks' = [tasks EXCEPT ![i].state = "waiting"]
    /\ UNCHANGED <<handles, run_pc, shut_pc, primary_state, warnings>>
    /\ UNCHANGED <<leader_vars, certificates>>

\* recv().await returns None: the loop and the task end.
intake_exit(i) ==
    /\ tasks[i].state = "polling"
    /\ recv(tasks[i]).kind = "None"
    /\ tasks' = [tasks EXCEPT ![i].state = after_none]
    /\ UNCHANGED <<handles, run_pc, shut_pc, primary_state, warnings>>
    /\ UNCHANGED <<leader_vars, certificates>>

\* The runtime drops an idle task whose handle was aborted; it does not run
\* again.
Cancel(i) ==
    /\ tasks[i].state = "waiting"
    /\ tasks[i].abort
    /\ tasks' = [tasks EXCEPT ![i].state = "cancelled"]
    /\ UNCHANGED <<handles, run_pc, shut_pc, primary_state, warnings>>
    /\ UNCHANGED <<leader_vars, certificates>>

\* BFT::shut_down up to its await: Primary is told to shut down.
shut_down_begin ==
    /\ shut_pc = "idle"
    /\ shut_pc' = "draining"
    /\ primary_state' = "draining"
    /\ UNCHANGED <<tasks, handles, run_pc, warnings>>
    /\ UNCHANGED <<leader_vars, certificates>>

\* Primary::shut_down completes.
PrimaryStopped ==
    /\ primary_state = "draining"
    /\ primary_state' = "stopped"
    /\ UNCHANGED <<tasks, handles, run_pc, shut_pc, warnings>>
    /\ UNCHANGED <<leader_vars, certificates>>

\* Mutant: shut_down also clears the leader certificate.
shut_down_abort_clearing ==
    /\ shut_pc = "draining"
    /\ primary_state = "stopped"
    /\ tasks' = [i \in DOMAIN tasks |->
                    IF \E k \in DOMAIN handles : handles[k] = i
                    THEN [tasks[i] EXCEPT !.abort = TRUE]
                    ELSE tasks[i]]
    /\ shut_pc' = "done"
    /\ leader_certificate' = None
    /\ UNCHANGED <<handles, run_pc, primary_state, warnings>>
    /\ UNCHANGED <<current_round, committees, result, certificates, call, twin>>

\* BFT::shut_down after its await: abort is called on every handle.
shut_down_abort ==
    /\ shut_pc = "draining"
    /\ primary_shut_down_returned
    /\ tasks' = [i \in DOMAIN tasks |->
                    IF \E k \in DOMAIN handles : handles[k] = i
                    THEN [tasks[i] EXCEPT !.abort = TRUE]
                    ELSE tasks[i]]
    /\ shut_pc' = "done"
    /\ UNCHANGED <<handles, run_pc, primary_state, warnings>>
    /\ UNCHANGED <<leader_vars, certificates>>

\* A step of the intake task i or of the runtime on it.
TaskStep(i) ==
    \/ Poll(i)
    \/ intake_step(i)
    \/ intake_suspend(i)
    \/ intake_exit(i)
    \/ Cancel(i)

LifecycleNext ==
    \/ run_begin
    \/ run_start_handlers
    \/ run_fail
    \/ shut_down_begin
    \/ PrimaryStopped
    \/ shut_down_abort
    \/ \E i \in DOMAIN tasks : PrimarySend(i)
    \/ \E i \in DOMAIN tasks : CloseSender(i)
    \/ \E i \in DOMAIN tasks : Poll(i)
    \/ \E i \in DOMAIN tasks : intake_step(i)
    \/ \E i \in DOMAIN tasks : intake_suspend(i)
    \/ \E i \in DOMAIN tasks : intake_exit(i)
    \/ \E i \in DOMAIN tasks : Cancel(i)

\* The runtime keeps running a task that can take a step.
LifecycleFairness ==
    \A i \in 1..MaxRuns : WF_vars(i \in DOMAIN tasks /\ TaskStep(i))

Lifecycle == Init /\ [][LifecycleNext]_vars /\ LifecycleFairness

TypeOK ==
    /\ current_round \in Rounds
    /\ certificates \subseteq BatchCertificate
    /\ leader_certificate \in {None} \cup {Some(c) : c \in BatchCertificate}
    /\ result \in {"none", "Ok", "Err"}
    /\ call.pc \in {"idle", "certificates", "committee"}
    /\ call.current_round \in Rounds
    /\ call.previous_certificates \subseteq BatchCertificate
    /\ twin.result \in {"none", "Ok", "Err"}
    /\ twin.leader_certificate \in {None} \cup {Some(c) : c \in BatchCertificate}

(***************************************************************************)
(* Leader tracking: the vocabulary of the claims, stated over Storage.     *)
(***************************************************************************)
\* update_leader_certificate is the operation that led to this state; Storage
\* is as the call read it.
Called == result /= "none"

EvenRound == current_round % 2 = 0

\* The round before the current one; round 0 has none and stands for itself.
PreviousRound == IF current_round = 0 THEN 0 ELSE current_round - 1

PreviousCertificates == {c \in certificates : c.round = PreviousRound}

CommitteeKnown == committees[current_round].some

\* A committee is registered for the current round and names its leader.
LeaderResolved ==
    /\ CommitteeKnown
    /\ leader_for(committees[current_round].value, current_round).ok

TheLeader == leader_for(committees[current_round].value, current_round).value

LeaderCertificates == {c \in PreviousCertificates : LeaderResolved /\ c.author = TheLeader}

\* C1: on an odd current round update_leader_certificate returns success and
\* leaves leader_certificate as it was, whether or not a committee is
\* registered for the round.
C1_ParityGate ==
    [][(result' /= "none" /\ ~EvenRound)
        => (result' = "Ok" /\ leader_certificate' = leader_certificate)]_vars

\* An odd round without a committee, where the call succeeded and a leader
\* certificate of an earlier round is still held.
C1_Witness ==
    /\ result = "Ok"
    /\ ~EvenRound
    /\ ~CommitteeKnown
    /\ leader_certificate.some

\* C2: on an even current round whose previous round (current_round - 1,
\* round 0 for round 0) holds no certificate, update_leader_certificate
\* returns success and leader_certificate is None, with or without a
\* committee for the current round.
C2_EmptyRoundSafety ==
    (Called /\ EvenRound /\ PreviousCertificates = {})
        => (result = "Ok" /\ leader_certificate = None)

\* An even round after round 0 with an empty previous round and no committee,
\* where the call succeeded and left None.
C2_Witness ==
    /\ result = "Ok"
    /\ EvenRound
    /\ current_round > 0
    /\ PreviousCertificates = {}
    /\ ~CommitteeKnown
    /\ certificates /= {}
    /\ leader_certificate = None

\* C3 as stated: whenever the previous round holds a certificate authored by
\* leader_for(current_round), leader_certificate equals it after the call.
C3_Original ==
    \A c \in PreviousCertificates :
        (Called /\ LeaderResolved /\ c.author = TheLeader)
            => leader_certificate = Some(c)

\* C3 amended: on an even current round, if the previous round holds a
\* certificate authored by leader_for(current_round), leader_certificate
\* equals that certificate after the call.
C3_LeaderMatch ==
    \A c \in PreviousCertificates :
        (Called /\ EvenRound /\ LeaderResolved /\ c.author = TheLeader)
            => (result = "Ok" /\ leader_certificate = Some(c))

\* An even round past round 0 whose previous round holds the leader's
\* certificate among others, and the call selected it.
C3_Witness ==
    /\ Called
    /\ EvenRound
    /\ current_round > 0
    /\ Cardinality(PreviousCertificates) > 1
    /\ \E c \in LeaderCertificates : leader_certificate = Some(c)

\* C4: on an even current round whose previous round holds certificates but
\* none authored by the resolved leader, update_leader_certificate succeeds
\* and leader_certificate is None.
C4_LeaderAbsent ==
    (Called /\ EvenRound /\ PreviousCertificates /= {} /\ LeaderResolved
        /\ LeaderCertificates = {})
        => (result = "Ok" /\ leader_certificate = None)

\* Committee {A, B, C}, an even round past round 0 whose previous round holds
\* two certificates, neither by the leader: the result is None.
C4_Witness ==
    /\ Called
    /\ EvenRound
    /\ current_round > 0
    /\ committees[current_round] = Some(CommitteeABC)
    /\ Cardinality(PreviousCertificates) = 2
    /\ LeaderCertificates = {}
    /\ leader_certificate = None

\* C5 as stated: whenever no committee exists for the current round, the
\* call fails with an error.
C5_Original == (Called /\ ~CommitteeKnown) => result = "Err"

\* C5 amended: on an even current round whose previous round holds at least
\* one certificate, if no committee exists for the current round the call
\* fails with an error and leader_certificate is left unchanged.
C5_MissingCommittee ==
    [][(result' /= "none" /\ EvenRound /\ PreviousCertificates /= {} /\ ~CommitteeKnown)
        => (result' = "Err" /\ leader_certificate' = leader_certificate)]_vars

\* The call failed for want of a committee and the leader certificate of an
\* earlier round is still held.
C5_Witness ==
    /\ result = "Err"
    /\ EvenRound
    /\ PreviousCertificates /= {}
    /\ ~CommitteeKnown
    /\ leader_certificate.some

\* C6 as stated: at current_round = 0 the call does not fail.
C6_Original == (Called /\ current_round = 0) => result = "Ok"

\* C6 amended: at current_round = 0 the previous round is round 0 and the
\* certificates examined are those of round 0: the call succeeds with None
\* when round 0 is empty, succeeds with the leader's round-0 certificate (or
\* None) when the leader is resolved, and fails only with the error of a
\* missing committee or of leader_for when round 0 holds certificates.
C6_NoUnderflow ==
    (Called /\ current_round = 0)
        => LET round0 == {c \in certificates : c.round = 0}
               ofLeader == {c \in round0 : LeaderResolved /\ c.author = TheLeader}
           IN  IF round0 = {}
               THEN result = "Ok" /\ leader_certificate = None
               ELSE IF LeaderResolved
               THEN /\ result = "Ok"
                    /\ IF ofLeader = {}
                       THEN leader_certificate = None
                       ELSE leader_certificate \in {Some(c) : c \in ofLeader}
               ELSE result = "Err"

\* At round 0 the call took the leader's certificate of round 0.
C6_Witness ==
    /\ result = "Ok"
    /\ current_round = 0
    /\ leader_certificate.some
    /\ leader_certificate.value.round = 0

\* C7 as stated: after any successful call leader_certificate is the
\* certificate of leader_for(current_round) in the previous round, or None if
\* the leader has none there.
C7_Original ==
    (result = "Ok" /\ LeaderResolved)
        => IF LeaderCertificates = {}
           THEN leader_certificate = None
           ELSE leader_certificate \in {Some(c) : c \in LeaderCertificates}

\* C7 amended: after any successful call on an even current round,
\* leader_certificate is exactly the certificate of leader_for(current_round)
\* in the previous round (round 0 for round 0), or None if that round holds no
\* certificate of the leader.
C7_PostCondition ==
    (result = "Ok" /\ EvenRound)
        => /\ PreviousCertificates /= {} => LeaderResolved
           /\ IF LeaderCertificates = {}
              THEN leader_certificate = None
              ELSE leader_certificate \in {Some(c) : c \in LeaderCertificates}

\* A successful call on round 2 under a committee other than round 1's, after
\* which the certificate held is of round 1 and of the leader of round 2.
C7_Witness ==
    /\ result = "Ok"
    /\ current_round = 2
    /\ committees[1].some
    /\ committees[1] /= committees[2]
    /\ leader_certificate.some
    /\ leader_certificate.value.round = 1
    /\ leader_certificate.value.author = TheLeader

(***************************************************************************)
(* Intake and lifecycle: the claims.                                       *)
(***************************************************************************)
TaskIds == 1..MaxRuns

IsTask(i) == i \in DOMAIN tasks

IsSpawned(i) == IsTask(i) /\ tasks[i].state \in Spawned

IsStopped(i) == IsTask(i) /\ tasks[i].state \in {"finished", "cancelled"}

AbortRequested(i) == IsTask(i) /\ tasks[i].abort

\* The certificates of a sequence whose processing fails.
Failing(seq) == {k \in DOMAIN seq : ~process_certificate_from_primary(seq[k]).ok}

\* The number of certificates whose processing failed, over the given tasks.
RECURSIVE FailedBy(_)
FailedBy(ids) ==
    IF ids = {} THEN 0
    ELSE LET i == CHOOSE j \in ids : TRUE
         IN  Cardinality(Failing(tasks[i].processed)) + FailedBy(ids \ {i})

C9_Original ==
    shut_pc = "done" => \A i \in DOMAIN tasks : tasks[i].abort => tasks[i].state /= "polling"

\* C9 amended: shut_down calls abort on every handle tracked when it iterates
\* the collection, and only after the shut down of Primary has completed; a
\* task that is idle when aborted never runs again, one that is being polled
\* stops at its next suspension, and every aborted task eventually stops.
C9_ShutDown ==
    /\ [][(shut_pc = "draining" /\ shut_pc' = "done")
            => \A k \in DOMAIN handles : tasks'[handles[k]].abort]_vars
    /\ []((\E i \in DOMAIN tasks : tasks[i].abort) => primary_state = "stopped")
    /\ [][\A i \in DOMAIN tasks :
            (tasks[i].abort /\ tasks[i].state /= "polling") => tasks'[i].state /= "polling"]_vars
    /\ \A i \in TaskIds : AbortRequested(i) ~> IsStopped(i)

\* shut_down has returned after a run: the task it aborted had processed a
\* certificate and is cancelled with another still queued.
C9_Witness ==
    /\ shut_pc = "done"
    /\ primary_state = "stopped"
    /\ \E i \in DOMAIN tasks :
        /\ tasks[i].abort
        /\ tasks[i].state = "cancelled"
        /\ tasks[i].processed /= <<>>
        /\ tasks[i].queue /= <<>>

\* C10: a task that has ended on its own has processed every certificate
\* enqueued and its sender is closed; and once the sender is closed a spawned
\* task eventually ends, without shut_down, unless it is aborted first.
C10_CleanExit ==
    /\ [](\A i \in DOMAIN tasks :
            tasks[i].state = "finished"
                => (tasks[i].closed /\ tasks[i].processed = tasks[i].enqueued))
    /\ \A i \in TaskIds :
            (IsSpawned(i) /\ tasks[i].closed)
                ~> (IsTask(i) /\ (tasks[i].state = "finished" \/ tasks[i].abort))

\* With shut_down never called, a task has ended after processing the two
\* certificates that were queued when the sender closed.
C10_Witness ==
    /\ shut_pc = "idle"
    /\ \E i \in DOMAIN tasks :
        /\ tasks[i].state = "finished"
        /\ ~tasks[i].abort
        /\ Len(tasks[i].processed) >= 2

(***************************************************************************)
(* Leader tracking: the committee used and the error condition.            *)
(***************************************************************************)
\* C15: on an even current round R past round 0 whose previous round holds
\* certificates, a successful call has resolved the leader with the committee
\* registered for R as leader_for(R), whatever is registered for R - 1: the
\* certificate held afterwards is of round R - 1 and authored by that leader,
\* and it is held whenever round R - 1 has one by that leader.
C15_CommitteeChoice ==
    (Called /\ EvenRound /\ current_round > 0 /\ PreviousCertificates /= {} /\ result = "Ok")
        => /\ LeaderResolved
           /\ leader_certificate.some
                => /\ leader_certificate.value.round = current_round - 1
                   /\ leader_certificate.value.author = TheLeader
           /\ \A c \in PreviousCertificates :
                c.author = TheLeader => leader_certificate = Some(c)

\* Round 2 with different committees for rounds 1 and 2 that name different
\* leaders for round 2, both of whom certified in round 1: the certificate
\* held is the one by the leader under the committee of round 2.
C15_Witness ==
    /\ result = "Ok"
    /\ current_round = 2
    /\ committees[1].some
    /\ committees[2].some
    /\ committees[1] /= committees[2]
    /\ LET other == leader_for(committees[1].value, current_round)
       IN  /\ other.ok
           /\ other.value /= TheLeader
           /\ \E c \in PreviousCertificates : c.author = other.value
    /\ leader_certificate.some
    /\ leader_certificate.value.author = TheLeader

\* C16: update_leader_certificate returns an error exactly when the current
\* round is even, the previous round holds a certificate, and no committee is
\* registered for the current round or leader_for fails; an error leaves
\* leader_certificate unchanged and every other call returns success.
C16_ExactError ==
    [][result' /= "none"
        => /\ (result' = "Err")
                <=> (EvenRound /\ PreviousCertificates /= {} /\ ~LeaderResolved)
           /\ result' /= "Err" => result' = "Ok"
           /\ result' = "Err" => leader_certificate' = leader_certificate]_vars

\* The call failed although a committee is registered for the round: its
\* leader_for failed.
C16_Witness ==
    /\ result = "Err"
    /\ EvenRound
    /\ CommitteeKnown
    /\ ~LeaderResolved
    /\ PreviousCertificates /= {}

(***************************************************************************)
(* Lifecycle: run and shut_down together.                                  *)
(***************************************************************************)
SpawnedTasks == {i \in DOMAIN tasks : tasks[i].state \in Spawned}

\* C11: run returns as soon as Primary has started, with its intake task
\* spawned and not finished; when Primary::run fails run returns the error
\* with no task spawned and no handle added; otherwise exactly one task is
\* spawned and its handle is appended; handles change in no other way.
C11_RunStartup ==
    /\ [][(run_pc = "primary" /\ run_pc' /= "primary")
            => \/ /\ run_pc' = "Err"
                  /\ handles' = handles
                  /\ SpawnedTasks' = SpawnedTasks
               \/ /\ run_pc' = "Ok"
                  /\ handles' = Append(handles, Len(tasks))
                  /\ SpawnedTasks' = SpawnedTasks \cup {Len(tasks)}
                  /\ tasks[Len(tasks)].state = "pending"
                  /\ tasks'[Len(tasks)].state = "waiting"]_vars
    /\ [][handles' /= handles => (run_pc = "primary" /\ run_pc' = "Ok")]_vars
    /\ [](Len(handles) = Cardinality(SpawnedTasks))

\* run has returned Ok while its one tracked task still has a certificate to
\* process.
C11_Witness ==
    /\ run_pc = "Ok"
    /\ Len(handles) = 1
    /\ tasks[handles[1]].state \in {"waiting", "polling"}
    /\ tasks[handles[1]].queue /= <<>>

\* C18: once run and shut_down have both returned, every intake task spawned
\* by a run that was called before shut_down returned has had abort called
\* on its handle.
C18_NoTaskEscapes ==
    (run_pc /= "primary" /\ shut_pc = "done")
        => \A i \in SpawnedTasks : tasks[i].began /= "done" => tasks[i].abort

(***************************************************************************)
(* The running instance: Storage, the calls of update_leader_certificate   *)
(* and the lifecycle together.                                             *)
(***************************************************************************)
\* BFT::new over a Storage whose committees are registered: one committee
\* for every round.
RunningInit ==
    /\ current_round = 0
    /\ certificates = {}
    /\ committees \in {[r \in Rounds |-> Some(committee)] : committee \in Committees}
    /\ leader_certificate = None
    /\ result = "none"
    /\ tasks = <<>>
    /\ handles = <<>>
    /\ run_pc = "idle"
    /\ shut_pc = "idle"
    /\ primary_state = "up"
    /\ warnings = 0
    /\ call = no_call
    /\ twin = [leader_certificate |-> None, result |-> "none"]

\* Primary admits the certificates here (PrimarySend), Storage advances its
\* round, and update_leader_certificate is called by whoever holds the BFT.
RunningNext ==
    \/ update_leader_certificate
    \/ AdvanceRound
    \/ LifecycleNext

Running == RunningInit /\ [][RunningNext]_vars

\* What update_leader_certificate leaves in leader_certificate when it
\* succeeds on the current round, an even one, over the Storage of this state.
TrackedOutcome ==
    IF LeaderCertificates = {} THEN None ELSE Some(CHOOSE c \in LeaderCertificates : TRUE)

\* update_leader_certificate would succeed over the Storage of this state.
WouldSucceed == ~EvenRound \/ PreviousCertificates = {} \/ LeaderResolved

\* The intake task i takes a certificate from its channel in this step.
Consumes(i) == Len(tasks'[i].processed) > Len(tasks[i].processed)

\* C13: when the running instance consumes a certificate while the current
\* round is even, leader_certificate is recomputed: after the step it is the
\* outcome of the leader-tracking routine for that round.
C13_Recomputation ==
    [][(EvenRound /\ WouldSucceed /\ \E i \in DOMAIN tasks : Consumes(i))
        => leader_certificate' = TrackedOutcome']_vars

\* C19: new leaves leader_certificate None, and update_leader_certificate is
\* the only operation that changes it: every step of run, of the intake task,
\* of shut_down, of Primary and of Storage leaves it as it was.
C19_SingleWriter ==
    /\ leader_certificate = None
    /\ [][leader_certificate' /= leader_certificate
            => (update_leader_certificate /\ UNCHANGED lifecycle_vars)]_vars
    /\ [][LifecycleNext => leader_certificate' = leader_certificate]_vars

\* shut_down has returned after the task processed a certificate, and the
\* leader certificate set by an earlier update is still held.
C19_Witness ==
    /\ shut_pc = "done"
    /\ run_pc = "Ok"
    /\ leader_certificate.some
    /\ \E i \in DOMAIN tasks : tasks[i].processed /= <<>> /\ tasks[i].state = "cancelled"

(***************************************************************************)
(* update_leader_certificate beside Storage.  The method takes no lock on  *)
(* Storage: it reads the round, then the certificates, then the committee, *)
(* and other tasks change Storage between those reads.  The only write is  *)
(* the assignment through leader_certificate.write().                      *)
(***************************************************************************)
\* Mutant: the leader certificate is cleared as soon as the certificates are
\* read, before the leader is known.
cleared_after_reading(previous_certificates, held) == None

\* if previous_certificates.is_empty() { *self.leader_certificate.write() = None; }
after_reading(previous_certificates, held) ==
    IF is_empty(previous_certificates) THEN None ELSE held

\* Mutant: the round is read from Storage again for the committee.
round_read_again(call_round) == current_round

\* The local current_round, read once and used for the committee and the leader.
round_of_call(call_round) == call_round

\* let current_round = self.storage.current_round(); and the parity gate
update_read_round ==
    /\ call.pc = "idle"
    /\ IF is_odd(current_round)
       THEN /\ result' = "Ok"
            /\ call' = call
       ELSE /\ result' = "none"
            /\ call' = [pc |-> "certificates", current_round |-> current_round,
                        previous_certificates |-> {}, held |-> leader_certificate]
    /\ UNCHANGED <<current_round, certificates, committees, leader_certificate>>
    /\ UNCHANGED <<lifecycle_vars, twin>>

\* The previous round, its certificates, and the return on an empty round.
update_read_certificates ==
    /\ call.pc = "certificates"
    /\ LET previous_round == previous_round_of(call.current_round)
           previous_certificates == get_certificates_for_round(previous_round)
       IN  /\ leader_certificate' = after_reading(previous_certificates, leader_certificate)
           /\ IF is_empty(previous_certificates)
              THEN /\ result' = "Ok"
                   /\ call' = no_call
              ELSE /\ result' = "none"
                   /\ call' = [call EXCEPT !.pc = "committee",
                                           !.previous_certificates = previous_certificates]
    /\ UNCHANGED <<current_round, certificates, committees>>
    /\ UNCHANGED <<lifecycle_vars, twin>>

\* The committee, its leader, and the write of the leader's certificate.
update_write_leader ==
    /\ call.pc = "committee"
    /\ LET resolved == resolve_leader(round_of_call(call.current_round))
       IN  IF ~resolved.ok
           THEN /\ result' = "Err"
                /\ leader_certificate' = leader_certificate
           ELSE /\ result' = "Ok"
                /\ leader_certificate' =
                       find_leader_certificate(call.previous_certificates, resolved.value)
    /\ call' = no_call
    /\ UNCHANGED <<current_round, certificates, committees>>
    /\ UNCHANGED <<lifecycle_vars, twin>>

ConcurrentNext ==
    \/ update_read_round
    \/ update_read_certificates
    \/ update_write_leader
    \/ AdmitCertificate
    \/ AdvanceRound
    \/ RegisterCommittee

Concurrent == Init /\ [][ConcurrentNext]_vars

\* A call of update_leader_certificate is between its first read and its return.
InCall == call.pc /= "idle"

\* C12: a reader beside update_leader_certificate sees the value the call
\* found or the value it leaves, never another one: while a call is under way
\* leader_certificate is what it was when the call began, it changes only in
\* the step that ends a call with Ok, and a call that ends in an error leaves
\* it as it was.
C12_AtomicVisibility ==
    /\ [](InCall => leader_certificate = call.held)
    /\ [][leader_certificate' /= leader_certificate
            => (InCall /\ ~InCall' /\ result' = "Ok")]_vars
    /\ [][result' = "Err" => leader_certificate' = leader_certificate]_vars

\* A call has read the certificates of a round and is about to replace the
\* certificate a reader still sees.
C12_Witness ==
    /\ call.pc = "committee"
    /\ leader_certificate.some
    /\ leader_certificate.value \notin call.previous_certificates
    /\ resolve_leader(call.current_round).ok

\* C17: whatever Storage does between the reads of a call, a certificate held
\* in leader_certificate is one Storage holds, of round max(R-1, 0) for an even
\* round R that Storage has reached, authored by the leader of R under the
\* committee of R.
C17_HeldCertificate ==
    leader_certificate.some =>
        LET c == leader_certificate.value
        IN  /\ c \in certificates
            /\ \E R \in Rounds :
                    /\ R <= current_round
                    /\ is_even(R)
                    /\ c.round = (IF R = 0 THEN 0 ELSE R - 1)
                    /\ committees[R].some
                    /\ leader_for(committees[R].value, R) = Ok(c.author)

\* A call that read round 0 has written its leader's certificate after Storage
\* went on to round 2 and took in more certificates.
C17_Witness ==
    /\ result = "Ok"
    /\ current_round = 2
    /\ leader_certificate.some
    /\ leader_certificate.value.round = 0
    /\ Cardinality(certificates) > 1

(***************************************************************************)
(* Two BFT instances over one Storage.                                     *)
(***************************************************************************)
\* Mutant: when the leader has no certificate the held one is kept.
update_keeping_held(held) ==
    IF is_odd(current_round)
    THEN [leader_certificate |-> held, result |-> "Ok"]
    ELSE LET previous_certificates ==
                 get_certificates_for_round(previous_round_of(current_round))
             resolved == resolve_leader(current_round)
             found == find_leader_certificate(previous_certificates, resolved.value)
         IN  IF is_empty(previous_certificates)
             THEN [leader_certificate |-> None, result |-> "Ok"]
             ELSE IF ~resolved.ok
             THEN [leader_certificate |-> held, result |-> "Err"]
             ELSE [leader_certificate |-> IF found.some THEN found ELSE held,
                   result |-> "Ok"]

\* BFT::update_leader_certificate as a function of the certificate the
\* instance holds: the certificate it holds afterwards and what it returns.
update_leader_certificate_of(held) ==
    IF is_odd(current_round)
    THEN [leader_certificate |-> held, result |-> "Ok"]
    ELSE LET previous_certificates ==
                 get_certificates_for_round(previous_round_of(current_round))
             resolved == resolve_leader(current_round)
         IN  IF is_empty(previous_certificates)
             THEN [leader_certificate |-> None, result |-> "Ok"]
             ELSE IF ~resolved.ok
             THEN [leader_certificate |-> held, result |-> "Err"]
             ELSE [leader_certificate |->
                       find_leader_certificate(previous_certificates, resolved.value),
                   result |-> "Ok"]

\* The second instance calls update_leader_certificate.
update_twin ==
    /\ twin' = update_leader_certificate_of(twin.leader_certificate)
    /\ UNCHANGED <<current_round, certificates, committees, leader_certificate, result>>
    /\ UNCHANGED <<lifecycle_vars, call>>

TwinNext ==
    \/ update_leader_certificate
    \/ update_twin
    \/ AdmitCertificate
    \/ AdvanceRound
    \/ RegisterCommittee

Twin == Init /\ [][TwinNext]_vars

\* The second instance has run its update on Storage as it is now.
TwinCalled == twin.result /= "none"

\* C20 as stated: two instances that ran update_leader_certificate against
\* the same Storage hold the same leader certificate and returned the same
\* result, whatever each held before.
C20_Original ==
    (Called /\ TwinCalled) =>
        /\ twin.result = result
        /\ twin.leader_certificate = leader_certificate

\* C20: two instances that ran update_leader_certificate against the same
\* Storage returned the same result, and hold the same leader certificate when
\* the current round is even and the call succeeded.
C20_Determinism ==
    (Called /\ TwinCalled) =>
        /\ twin.result = result
        /\ (EvenRound /\ result = "Ok")
               => twin.leader_certificate = leader_certificate

\* Both instances have tracked the leader of round 2 to the same certificate.
C20_Witness ==
    /\ Called
    /\ TwinCalled
    /\ current_round = 2
    /\ result = "Ok"
    /\ leader_certificate.some
    /\ leader_certificate.value.round = 1
    /\ twin.leader_certificate = leader_certificate
====
